---- MODULE Spec2Model ----
(***************************************************************************)
(* A model of src/trakt_api.py: the resolution of EPG guide records        *)
(* against the Trakt catalog and the assembly of the batch submitted to    *)
(* a Trakt list.                                                           *)
(*                                                                         *)
(* Python strings are sequences of one-character strings, so that slicing, *)
(* split, strip, lower and int() are modelled by what they do.  None is a  *)
(* value distinct from every string.                                       *)
(***************************************************************************)
EXTENDS Integers, Sequences, FiniteSets, TLC

VARIABLES
    catalog,            \* the responses of the Trakt API during this run
    programs,           \* json_data["programs"]
    pc,                 \* position of main()
    idx,                \* number of programs the loop of main() has consumed
    movie_payload,      \* main(): movie_payload
    episodes_payload,   \* main(): episodes_payload (a list of lists until flattened)
    trace,              \* per consumed program: what its loop iteration did
    submitted,          \* the body posted by add_to_trakt_list, once posted
    pin,                \* argument of the function under study (function specifications)
    pout                \* its result

vars == <<catalog, programs, pc, idx, movie_payload, episodes_payload, trace,
          submitted, pin, pout>>

-----------------------------------------------------------------------------
(* Python values *)

None == <<"None">>

\* Python truthiness of an optional string: None and "" are falsy.
Truthy(s) == s # None /\ s # <<>>

Whitespace == {" ", "\t", "\n"}

DigitVal == [c \in {"0", "1", "2", "3", "4", "5", "6", "7", "8", "9"} |->
               CASE c = "0" -> 0 [] c = "1" -> 1 [] c = "2" -> 2 [] c = "3" -> 3
                 [] c = "4" -> 4 [] c = "5" -> 5 [] c = "6" -> 6 [] c = "7" -> 7
                 [] c = "8" -> 8 [] c = "9" -> 9]

IsDigit(c) == c \in DOMAIN DigitVal

LowerChar(c) ==
    CASE c = "A" -> "a" [] c = "B" -> "b" [] c = "C" -> "c" [] c = "D" -> "d"
      [] c = "E" -> "e" [] c = "F" -> "f" [] c = "G" -> "g" [] c = "M" -> "m"
      [] c = "Q" -> "q" [] c = "S" -> "s" [] c = "V" -> "v" [] c = "X" -> "x"
      [] c = "Z" -> "z"
      [] OTHER -> c

\* str.lower()
Lower(s) == [i \in 1..Len(s) |-> LowerChar(s[i])]

\* s[:n]
Prefix(s, n) == SubSeq(s, 1, IF Len(s) < n THEN Len(s) ELSE n)

\* s[1:]
DropFirst(s) == IF s = <<>> THEN <<>> ELSE Tail(s)

RECURSIVE LStrip(_)
LStrip(s) == IF s # <<>> /\ Head(s) \in Whitespace THEN LStrip(Tail(s)) ELSE s

RECURSIVE RStrip(_)
RStrip(s) ==
    IF s # <<>> /\ s[Len(s)] \in Whitespace THEN RStrip(SubSeq(s, 1, Len(s) - 1)) ELSE s

\* str.strip()
Strip(s) == RStrip(LStrip(s))

\* sep in s
Contains(s, sep) == \E i \in 1..Len(s) : s[i] = sep

\* s.split(sep) for a one-character separator: always at least one part.
RECURSIVE Split(_, _)
Split(s, sep) ==
    IF ~Contains(s, sep) THEN <<s>>
    ELSE LET k == CHOOSE i \in 1..Len(s) : s[i] = sep /\ \A j \in 1..(i - 1) : s[j] # sep
         IN  <<SubSeq(s, 1, k - 1)>> \o Split(SubSeq(s, k + 1, Len(s)), sep)

RECURSIVE DigitsValue(_)
DigitsValue(ds) ==
    IF ds = <<>> THEN 0
    ELSE 10 * DigitsValue(SubSeq(ds, 1, Len(ds) - 1)) + DigitVal[ds[Len(ds)]]

\* int(s) for a string: surrounding whitespace is dropped, one sign is allowed,
\* digits may be grouped by single underscores.  ok = FALSE is ValueError.
IntParse(s) ==
    LET t      == Strip(s)
        signed == t # <<>> /\ t[1] \in {"+", "-"}
        body   == IF signed THEN Tail(t) ELSE t
        ok     == /\ body # <<>>
                  /\ IsDigit(body[1])
                  /\ IsDigit(body[Len(body)])
                  /\ \A i \in 1..Len(body) : IsDigit(body[i]) \/ body[i] = "_"
                  /\ \A i \in 1..(Len(body) - 1) : ~(body[i] = "_" /\ body[i + 1] = "_")
        mag    == DigitsValue(SelectSeq(body, IsDigit))
    IN  [ok |-> ok, val |-> IF ~ok THEN 0 ELSE IF t[1] = "-" THEN 0 - mag ELSE mag]

\* dict.get(key, default)
Get(d, key, default) == IF key \in DOMAIN d THEN d[key] ELSE default

RECURSIVE Flatten_reversed(_)
\* Flatten with the lists taken last to first
Flatten_reversed(lists) ==
    IF lists = <<>> THEN <<>> ELSE Flatten_reversed(Tail(lists)) \o Head(lists)

RECURSIVE Flatten(_)
\* list(chain.from_iterable(lists))
Flatten(lists) == IF lists = <<>> THEN <<>> ELSE Head(lists) \o Flatten(Tail(lists))

-----------------------------------------------------------------------------
(* is_movie *)

RECURSIVE AnyMovieCode(_)
\* the inner loop of is_movie over the codes found under one key
AnyMovieCode(codes) ==
    IF codes = <<>> THEN FALSE
    ELSE LET episode == Head(codes)
         IN  IF /\ Get(episode, "system", "") = "dd_progid"
                /\ Lower(Prefix(Get(episode, "value", <<>>), 2)) = <<"m", "v">>
             THEN TRUE
             ELSE AnyMovieCode(Tail(codes))

\* is_movie reading the codes under the key "episodeNum" only
is_movie_one_key(program) == AnyMovieCode(Get(program, "episodeNum", <<>>))

is_movie(program) ==
    \/ AnyMovieCode(Get(program, "episodeNum", <<>>))
    \/ AnyMovieCode(Get(program, "episodenum", <<>>))

-----------------------------------------------------------------------------
(* the onscreen code of search_episode_by_onscreen_value *)

\* season_number, episode_number = map(int, onscreen_value[1:].split('E'))
\* ok = FALSE is the ValueError of int() or of the unpacking.
parse_onscreen(onscreen_value) ==
    LET parts == Split(DropFirst(onscreen_value), "E")
        a     == IntParse(parts[1])
        b     == IF Len(parts) = 2 THEN IntParse(parts[2]) ELSE [ok |-> FALSE, val |-> 0]
    IN  IF Len(parts) = 2 /\ a.ok /\ b.ok
        THEN [ok |-> TRUE, season |-> a.val, episode |-> b.val]
        ELSE [ok |-> FALSE, season |-> 0, episode |-> 0]

-----------------------------------------------------------------------------
(* fuzzywuzzy: process.extractOne(query, [choice])[1] *)

\* the characters the default processor replaces by a space (regex \W)
NonWord == Whitespace \cup {";", "-", "+", ":", ",", ".", "!", "'"}

\* utils.full_process: non-word characters to spaces, lower case, strip
full_process(s) ==
    Strip(Lower([i \in 1..Len(s) |-> IF s[i] \in NonWord THEN " " ELSE s[i]]))

\* the whitespace-separated tokens of a processed string
Tokens(s) == SelectSeq(Split(s, " "), LAMBDA t : t # <<>>)

TokenCount(s, t) == Cardinality({i \in 1..Len(Tokens(s)) : Tokens(s)[i] = t})

SameTokens(p, q) ==
    /\ Len(Tokens(p)) = Len(Tokens(q))
    /\ \A i \in 1..Len(Tokens(p)) : TokenCount(p, Tokens(p)[i]) = TokenCount(q, Tokens(p)[i])

Occurs(short, long) ==
    \E k \in 0..(Len(long) - Len(short)) : SubSeq(long, k + 1, k + Len(short)) = short

Threshold == 90

\* fuzz.WRatio on two processed strings, for the titles of this model: an empty
\* string scores 0; equal strings 100; a string occurring inside one at least 1.5
\* times as long 90 (partial_ratio scaled by 0.9), or 60 when more than 8 times as
\* long; the same tokens in another order or spacing 95 (token_sort_ratio scaled
\* by 0.95); every other pair of titles used here scores below 90.
WRatio(p, q) ==
    LET short == IF Len(p) <= Len(q) THEN p ELSE q
        long  == IF Len(p) <= Len(q) THEN q ELSE p
    IN  IF p = <<>> \/ q = <<>> THEN 0
        ELSE IF p = q THEN 100
        ELSE IF 2 * Len(long) >= 3 * Len(short)
             THEN (IF ~Occurs(short, long) THEN 50
                   ELSE IF Len(long) > 8 * Len(short) THEN 60 ELSE 90)
        ELSE IF SameTokens(p, q) THEN 95
        ELSE 50

\* process.extractOne(query, [choice])[1]
Score(query, choice) == WRatio(full_process(query), full_process(choice))

-----------------------------------------------------------------------------
(* the Trakt API: every response is a function of the request and of catalog *)

\* Python None where a dict is expected
Nil == [nil |-> TRUE]

Endpoints == {"searchShows", "listSeasons", "listEpisodes", "getEpisode", "searchMovies"}

\* GET /search/show?query=..&type=show
SearchShows(query) ==
    IF "searchShows" \in catalog.failing THEN [status |-> "error", body |-> <<>>]
    ELSE [status |-> "ok", body |-> catalog.shows]

\* GET /shows/{id}/seasons
ListSeasons(show_id) ==
    IF "listSeasons" \in catalog.failing THEN [status |-> "error", body |-> <<>>]
    ELSE [status |-> "ok", body |-> Get(catalog.seasons, show_id, <<>>)]

\* GET /shows/{id}/seasons/{n}/episodes
ListEpisodes(show_id, season_number) ==
    IF "listEpisodes" \in catalog.failing THEN [status |-> "error", body |-> <<>>]
    ELSE [status |-> "ok", body |-> Get(catalog.episodes, <<show_id, season_number>>, <<>>)]

\* GET /shows/{id}/seasons/{s}/episodes/{e}: 404 when there is no such episode
GetEpisode(show_id, season_number, episode_number) ==
    LET eps == Get(catalog.episodes, <<show_id, season_number>>, <<>>)
    IN  IF "getEpisode" \in catalog.failing THEN [status |-> "error", body |-> Nil]
        ELSE IF episode_number \in 1..Len(eps)
             THEN [status |-> "ok", body |-> eps[episode_number]]
        ELSE [status |-> "404", body |-> Nil]

\* GET /search/movie?query=..&type=movie
SearchMovies(query) ==
    IF "searchMovies" \in catalog.failing THEN [status |-> "error", body |-> <<>>]
    ELSE [status |-> "ok", body |-> catalog.movies]

\* a diagnostic printed by the program
Diag(kind, args) == [kind |-> kind, args |-> args]

-----------------------------------------------------------------------------
(* get_first_show_id: raises RequestException (raised) on a failed request *)

\* first_show_of taking the first show whose title scores above the threshold
first_show_of_accepted(r, show_title) ==
    LET q  == <<<<"searchShows", show_title>>>>
        ok == SelectSeq(r.body,
                        LAMBDA s : Score(Lower(show_title), Lower(s.title)) > Threshold)
    IN  IF r.status # "ok"
        THEN [raised |-> TRUE, show_id |-> "", log |-> <<>>, q |-> q]
        ELSE IF ok = <<>>
        THEN [raised |-> FALSE, show_id |-> "",
              log |-> <<Diag("NoShowFound", <<show_title>>)>>, q |-> q]
        ELSE [raised |-> FALSE, show_id |-> ok[1].trakt, log |-> <<>>, q |-> q]

\* lines 120-133, r the response to the search
first_show_of(r, show_title) ==
    LET q == <<<<"searchShows", show_title>>>>
    IN  IF r.status # "ok"
        THEN [raised |-> TRUE, show_id |-> "", log |-> <<>>, q |-> q]
        ELSE IF r.body = <<>>
        THEN [raised |-> FALSE, show_id |-> "",
              log |-> <<Diag("NoShowFound", <<show_title>>)>>, q |-> q]
        ELSE IF r.body[1].trakt = ""
        THEN [raised |-> FALSE, show_id |-> "",
              log |-> <<Diag("NoShowId", <<show_title>>)>>, q |-> q]
        ELSE [raised |-> FALSE, show_id |-> r.body[1].trakt, log |-> <<>>, q |-> q]

get_first_show_id(show_title) == first_show_of(SearchShows(show_title), show_title)

(* search_episode_by_onscreen_value *)

\* lines 166-176, r the response to the episode request
episode_of_response(r, q, show_title) ==
    IF r.status = "404" THEN [episode |-> Nil, q |-> q, log |-> <<>>]
    ELSE IF r.status # "ok"
    THEN [episode |-> Nil, q |-> q, log |-> <<Diag("TransportFailure", <<show_title>>)>>]
    ELSE [episode |-> r.body, q |-> q, log |-> <<>>]

\* lines 153-176, f the result of get_first_show_id
episode_of_show(f, p, show_title) ==
    IF f.raised
    THEN [episode |-> Nil, q |-> f.q, log |-> <<Diag("TransportFailure", <<show_title>>)>>]
    ELSE IF f.show_id = ""
    THEN [episode |-> Nil, q |-> f.q, log |-> f.log]
    ELSE episode_of_response(GetEpisode(f.show_id, p.season, p.episode),
                             f.q \o <<<<"getEpisode", f.show_id, p.season, p.episode>>>>,
                             show_title)

\* lines 150-179, p the parsed onscreen value
episode_of_code(p, show_title, onscreen_value) ==
    IF ~p.ok
    THEN [episode |-> Nil, q |-> <<>>,
          log |-> <<Diag("InvalidCodeFormat", <<onscreen_value>>)>>]
    ELSE episode_of_show(get_first_show_id(show_title), p, show_title)

search_episode_by_onscreen_value(show_title, onscreen_value) ==
    episode_of_code(parse_onscreen(onscreen_value), show_title, onscreen_value)

-----------------------------------------------------------------------------
(* search_episode_by_title.  kind: "found" (return episode), "none" (the loop *)
(* ran out), "error" (RequestException, caught at line 221), "raise" (the     *)
(* AttributeError of None.lower(), which nothing catches).                    *)

RECURSIVE ScanEpisodes_at_least(_, _)
\* ScanEpisodes accepting a score of 90 too
ScanEpisodes_at_least(episodes, episode_title) ==
    IF episodes = <<>> THEN [kind |-> "none", episode |-> Nil, q |-> <<>>]
    ELSE IF episode_title = None THEN [kind |-> "raise", episode |-> Nil, q |-> <<>>]
    ELSE IF Score(Lower(episode_title), Lower(Head(episodes).title)) >= Threshold
    THEN [kind |-> "found", episode |-> Head(episodes), q |-> <<>>]
    ELSE ScanEpisodes_at_least(Tail(episodes), episode_title)

RECURSIVE ScanEpisodes(_, _)
\* for episode in episodes (lines 218-220)
ScanEpisodes(episodes, episode_title) ==
    IF episodes = <<>> THEN [kind |-> "none", episode |-> Nil, q |-> <<>>]
    ELSE IF episode_title = None THEN [kind |-> "raise", episode |-> Nil, q |-> <<>>]
    ELSE IF Score(Lower(episode_title), Lower(Head(episodes).title)) > Threshold
    THEN [kind |-> "found", episode |-> Head(episodes), q |-> <<>>]
    ELSE ScanEpisodes(Tail(episodes), episode_title)

\* r then e, where e.kind = "none" hands over to rest; the requests add up
Then(q, e, rest) ==
    IF e.kind # "none" THEN [e EXCEPT !.q = q \o @]
    ELSE [rest EXCEPT !.q = q \o e.q \o @]

RECURSIVE ScanSeasons(_, _, _)
\* for season in seasons (lines 212-220)
ScanSeasons(show_id, seasons, episode_title) ==
    IF seasons = <<>> THEN [kind |-> "none", episode |-> Nil, q |-> <<>>]
    ELSE IF ListEpisodes(show_id, Head(seasons)).status # "ok"
    THEN [kind |-> "error", episode |-> Nil,
          q |-> <<<<"listEpisodes", show_id, Head(seasons)>>>>]
    ELSE Then(<<<<"listEpisodes", show_id, Head(seasons)>>>>,
              ScanEpisodes(ListEpisodes(show_id, Head(seasons)).body, episode_title),
              ScanSeasons(show_id, Tail(seasons), episode_title))

RECURSIVE ScanShows(_, _, _)
\* for show in shows (lines 205-220)
ScanShows(shows, show_title, episode_title) ==
    IF shows = <<>> THEN [kind |-> "none", episode |-> Nil, q |-> <<>>]
    ELSE IF ~(Score(Lower(show_title), Lower(Head(shows).title)) > Threshold)
    THEN ScanShows(Tail(shows), show_title, episode_title)
    ELSE IF ListSeasons(Head(shows).trakt).status # "ok"
    THEN [kind |-> "error", episode |-> Nil, q |-> <<<<"listSeasons", Head(shows).trakt>>>>]
    ELSE Then(<<<<"listSeasons", Head(shows).trakt>>>>,
              ScanSeasons(Head(shows).trakt, ListSeasons(Head(shows).trakt).body,
                          episode_title),
              ScanShows(Tail(shows), show_title, episode_title))

\* lines 221-223 and the returns, s the outcome of the loops
title_outcome(s, show_title) ==
    IF s.kind = "error"
    THEN [episode |-> Nil, raised |-> FALSE, q |-> s.q,
          log |-> <<Diag("TransportFailure", <<show_title>>)>>]
    ELSE [episode |-> s.episode, raised |-> (s.kind = "raise"), log |-> <<>>, q |-> s.q]

search_episode_by_title(show_title, episode_title) ==
    IF SearchShows(show_title).status # "ok"
    THEN [episode |-> Nil, raised |-> FALSE, q |-> <<<<"searchShows", show_title>>>>,
          log |-> <<Diag("TransportFailure", <<show_title>>)>>]
    ELSE title_outcome(Then(<<<<"searchShows", show_title>>>>,
                            ScanShows(SearchShows(show_title).body, show_title,
                                      episode_title),
                            [kind |-> "none", episode |-> Nil, q |-> <<>>]),
                       show_title)

-----------------------------------------------------------------------------
(* search_movie_by_title_and_year.  raised is the ValueError of int(movie_year), *)
(* which the except clause (requests.RequestException) does not catch.           *)

\* ScanMovies taking the first candidate whatever its year
ScanMovies_first_match(movie_data, movie_year) ==
    IF movie_data = <<>> THEN [kind |-> "none", movie |-> Nil]
    ELSE IF ~IntParse(movie_year).ok THEN [kind |-> "raise", movie |-> Nil]
    ELSE [kind |-> "found", movie |-> Head(movie_data)]

RECURSIVE ScanMovies(_, _)
\* for movie in movie_data (lines 250-253)
ScanMovies(movie_data, movie_year) ==
    IF movie_data = <<>> THEN [kind |-> "none", movie |-> Nil]
    ELSE IF ~IntParse(movie_year).ok THEN [kind |-> "raise", movie |-> Nil]
    ELSE IF Head(movie_data).year = IntParse(movie_year).val
    THEN [kind |-> "found", movie |-> Head(movie_data)]
    ELSE ScanMovies(Tail(movie_data), movie_year)

\* lines 249-258, s the outcome of the loop
movie_outcome(s, movie_title, movie_year) ==
    LET q == <<<<"searchMovies", movie_title>>>>
    IN  IF s.kind = "raise"
        THEN [movie |-> Nil, raised |-> TRUE, q |-> q, log |-> <<>>]
        ELSE IF s.kind = "found"
        THEN [movie |-> s.movie, raised |-> FALSE, q |-> q, log |-> <<>>]
        ELSE [movie |-> Nil, raised |-> FALSE, q |-> q,
              log |-> <<Diag("MovieYearNotFound", <<movie_title, movie_year>>)>>]

\* lines 245-261, r the response to the search
movie_of_response(r, movie_title, movie_year) ==
    IF r.status # "ok"
    THEN [movie |-> Nil, raised |-> FALSE, q |-> <<<<"searchMovies", movie_title>>>>,
          log |-> <<Diag("TransportFailure", <<movie_title, movie_year>>)>>]
    ELSE IF r.body = <<>>
    THEN [movie |-> Nil, raised |-> FALSE, q |-> <<<<"searchMovies", movie_title>>>>,
          log |-> <<Diag("MovieNotFound", <<movie_title, movie_year>>)>>]
    ELSE movie_outcome(ScanMovies(r.body, movie_year), movie_title, movie_year)

search_movie_by_title_and_year(movie_title, movie_year) ==
    movie_of_response(SearchMovies(movie_title), movie_title, movie_year)

-----------------------------------------------------------------------------
(* get_trakt_episode_data *)

\* {"ids": x["ids"]}
Item(x) == [ids |-> x.ids]

\* lines 363-367: one part looked up, r the result of the lookup
part_step(acc, r, short_episode, show_title) ==
    [episode |-> r.episode,
     list    |-> IF r.episode # Nil THEN Append(acc.list, Item(r.episode)) ELSE acc.list,
     log     |-> acc.log \o r.log \o
                 (IF r.episode # Nil \/ r.raised THEN <<>>
                  ELSE <<Diag("PartFailed", <<short_episode, show_title>>)>>),
     q       |-> acc.q \o r.q,
     raised  |-> r.raised]

RECURSIVE SplitLoop(_, _, _)
\* for short_episode in episode_titles (lines 362-367); acc.episode is the
\* variable episode, which keeps the result of the last part looked up
SplitLoop(show_title, episode_titles, acc) ==
    IF episode_titles = <<>> \/ acc.raised THEN acc
    ELSE SplitLoop(show_title, Tail(episode_titles),
             part_step(acc,
                       search_episode_by_title(show_title, Strip(Head(episode_titles))),
                       Strip(Head(episode_titles)), show_title))

\* lines 359-367: no onscreen value, r2 the result of the lookup of the whole title
title_steps(r2, show_title, episode_title) ==
    IF ~r2.raised /\ r2.episode = Nil /\ Contains(episode_title, ";")
    THEN SplitLoop(show_title, Split(episode_title, ";"),
             [episode |-> Nil, list |-> <<>>, log |-> r2.log, q |-> r2.q,
              raised |-> FALSE])
    ELSE [episode |-> r2.episode, list |-> <<>>, log |-> r2.log, q |-> r2.q,
          raised |-> r2.raised]

\* lines 353-357: the onscreen lookup r1 found nothing, r2 the lookup by title
fallback_steps(r1, r2, show_title, onscreen_value) ==
    [episode |-> r2.episode,
     list    |-> IF r2.episode # Nil THEN <<Item(r2.episode)>> ELSE <<>>,
     log     |-> r1.log \o r2.log \o
                 (IF r2.episode # Nil \/ r2.raised THEN <<>>
                  ELSE <<Diag("OnscreenNotFound", <<onscreen_value, show_title>>)>>),
     q       |-> r1.q \o r2.q,
     raised  |-> r2.raised]

\* lines 351-357: r1 the result of the onscreen lookup
onscreen_steps(r1, show_title, episode_title, onscreen_value) ==
    IF r1.episode # Nil
    THEN [episode |-> r1.episode, list |-> <<>>, log |-> r1.log, q |-> r1.q,
          raised |-> FALSE]
    ELSE fallback_steps(r1, search_episode_by_title(show_title, episode_title),
                        show_title, onscreen_value)

\* lines 350-367: the lookups, up to the common tail of line 369
episode_steps(show_title, episode_title, onscreen_value) ==
    IF Truthy(onscreen_value)
    THEN onscreen_steps(search_episode_by_onscreen_value(show_title, onscreen_value),
                        show_title, episode_title, onscreen_value)
    ELSE title_steps(search_episode_by_title(show_title, episode_title),
                     show_title, episode_title)

\* lines 369-373, s the state the lookups left.  raised: an exception leaves
\* the function (AttributeError from line 219, or the TypeError of
\* ';' in None at line 371) and nothing is returned
episode_tail(s, show_title, episode_title) ==
    IF s.raised
    THEN [episodes_list |-> <<>>, raised |-> TRUE, q |-> s.q, log |-> s.log]
    ELSE IF s.episode # Nil
    THEN [episodes_list |-> Append(s.list, Item(s.episode)), raised |-> FALSE,
          q |-> s.q, log |-> s.log]
    ELSE IF episode_title = None
    THEN [episodes_list |-> <<>>, raised |-> TRUE, q |-> s.q, log |-> s.log]
    ELSE IF ~Contains(episode_title, ";")
    THEN [episodes_list |-> s.list, raised |-> FALSE, q |-> s.q,
          log |-> Append(s.log, Diag("ResolutionFailed", <<episode_title, show_title>>))]
    ELSE [episodes_list |-> s.list, raised |-> FALSE, q |-> s.q, log |-> s.log]

\* get_trakt_episode_data requiring the show title only
get_trakt_episode_data_title_only(show_title, episode_title, onscreen_value) ==
    IF ~Truthy(show_title)
    THEN [episodes_list |-> <<>>, raised |-> FALSE, q |-> <<>>,
          log |-> <<Diag("MissingField", <<show_title>>)>>]
    ELSE episode_tail(episode_steps(show_title, episode_title, onscreen_value),
                      show_title, episode_title)

get_trakt_episode_data(show_title, episode_title, onscreen_value) ==
    IF ~(Truthy(show_title) /\ (Truthy(episode_title) \/ Truthy(onscreen_value)))
    THEN [episodes_list |-> <<>>, raised |-> FALSE, q |-> <<>>,
          log |-> <<Diag("MissingField", <<show_title>>)>>]
    ELSE episode_tail(episode_steps(show_title, episode_title, onscreen_value),
                      show_title, episode_title)

-----------------------------------------------------------------------------
(* main: the body of the loop over json_data["programs"] *)

\* program["title"][0]["value"] if program.get("title") else None
title_value(program) ==
    IF Get(program, "title", <<>>) # <<>> THEN program.title[1].value ELSE None

\* program["date"] if program.get("date") else None
date_value(program) ==
    IF Truthy(Get(program, "date", None)) THEN program.date ELSE None

\* lines 410-415
subtitle_value(program) ==
    IF "subTitle" \in DOMAIN program
    THEN (IF program.subTitle # <<>> THEN Get(program.subTitle[1], "value", None) ELSE None)
    ELSE IF "subtitle" \in DOMAIN program
    THEN (IF program.subtitle # <<>> THEN Get(program.subtitle[1], "value", None) ELSE None)
    ELSE <<>>

RECURSIVE FirstOnscreen(_)
\* next((item.get("value") for item in ... if item.get("system") == "onscreen"), None)
FirstOnscreen(items) ==
    IF items = <<>> THEN None
    ELSE IF Get(Head(items), "system", "") = "onscreen" THEN Get(Head(items), "value", None)
    ELSE FirstOnscreen(Tail(items))

onscreen_of(program) == FirstOnscreen(Get(program, "episodeNum", <<>>))

\* lines 404-405, r the result of the search
movie_item(r) ==
    [kind |-> "movie", movies |-> IF r.movie # Nil THEN <<Item(r.movie)>> ELSE <<>>,
     episodes_list |-> <<>>, raised |-> r.raised, q |-> r.q, log |-> r.log]

\* resolve_movie requiring the year only
resolve_movie_year_only(movie_title, movie_year) ==
    IF ~Truthy(movie_year)
    THEN [kind |-> "movie", movies |-> <<>>, episodes_list |-> <<>>, raised |-> FALSE,
          q |-> <<>>, log |-> <<Diag("MissingFieldMovie", <<movie_title>>)>>]
    ELSE movie_item(search_movie_by_title_and_year(Strip(movie_title), movie_year))

\* lines 402-407: the movie branch
resolve_movie(movie_title, movie_year) ==
    IF ~(Truthy(movie_title) /\ Truthy(movie_year))
    THEN [kind |-> "movie", movies |-> <<>>, episodes_list |-> <<>>, raised |-> FALSE,
          q |-> <<>>, log |-> <<Diag("MissingFieldMovie", <<movie_title>>)>>]
    ELSE movie_item(search_movie_by_title_and_year(Strip(movie_title), movie_year))

\* lines 418-419, e the result of get_trakt_episode_data
episode_item(e) ==
    [kind |-> "episode", movies |-> <<>>, episodes_list |-> e.episodes_list,
     raised |-> e.raised, q |-> e.q, log |-> e.log]

\* lines 399-419: what one iteration does with one program
loop_body(program) ==
    IF is_movie(program)
    THEN resolve_movie(title_value(program), date_value(program))
    ELSE episode_item(get_trakt_episode_data(title_value(program), subtitle_value(program),
                                             onscreen_of(program)))

-----------------------------------------------------------------------------
(* the guide records and catalogs of the model *)

MaxPrograms == 2

Str_Foo == <<"F", "o", "o">>
Str_foo == <<"f", "o", "o">>
Str_Goo == <<"G", "o", "o">>
Str_Bar == <<"B", "a", "r">>
Str_Baz == <<"B", "a", "z">>
Str_Qux == <<"Q", "u", "x">>
Str_Zap == <<"Z", "a", "p">>
Str_Dune == <<"D", "u", "n", "e">>
Str_QuxBaz == Str_Qux \o <<";", " ">> \o Str_Baz
Str_BazQux == Str_Baz \o <<";">> \o Str_Qux
Str_BarBaz == Str_Bar \o <<" ", ";">> \o Str_Baz
Str_2021 == <<"2", "0", "2", "1">>
Str_1984 == <<"1", "9", "8", "4">>
Str_S1E1 == <<"S", "1", "E", "1">>
Str_S1E2 == <<"S", "1", "E", "2">>
Str_S9E9 == <<"S", "9", "E", "9">>
Str_MV1 == <<"M", "V", "1">>

Title(s) == <<[value |-> s]>>

Code(system, value) == [system |-> system, value |-> value]

\* the guide records of a run
ProgramSet ==
    { [title |-> Title(Str_Foo), subTitle |-> Title(Str_Bar)],
      [title |-> Title(Str_Foo), subTitle |-> Title(Str_QuxBaz)],
      [title |-> Title(Str_Foo), subTitle |-> Title(Str_Baz),
       episodeNum |-> <<Code("dd_progid", <<"S", "H", "1">>), Code("onscreen", Str_S1E2)>>],
      [title |-> Title(Str_Foo), subTitle |-> Title(Str_Bar),
       episodeNum |-> <<Code("onscreen", Str_S9E9)>>],
      [title |-> Title(Str_Foo), subTitle |-> <<>>,
       episodeNum |-> <<Code("onscreen", Str_S1E1)>>],
      [subTitle |-> Title(Str_Bar)],
      [title |-> Title(Str_Dune \o <<" ">>), date |-> Str_2021,
       episodeNum |-> <<Code("dd_progid", Str_MV1)>>],
      [title |-> Title(Str_Dune), date |-> <<"x">>,
       episodenum |-> <<Code("dd_progid", <<"m", "V", "1">>)>>] }

ProgramLists == UNION {[1..n -> ProgramSet] : n \in 0..MaxPrograms}

\* a dict without keys
NoKeys == [k \in {} |-> k]

\* the guide records one resolution is studied on: every combination of a title,
\* a subtitle, a list of codes and a date, each of which may be missing
TitleParts ==
    {NoKeys, "title" :> <<>>, "title" :> Title(<<>>), "title" :> Title(Str_Foo),
     "title" :> Title(Str_Dune \o <<" ">>)}

SubtitleParts ==
    {NoKeys, "subTitle" :> <<>>, "subTitle" :> Title(<<>>), "subTitle" :> Title(Str_Bar),
     "subTitle" :> Title(Str_QuxBaz), "subTitle" :> Title(Str_BazQux),
     "subTitle" :> Title(Str_BarBaz), "subTitle" :> Title(Str_Qux),
     "subtitle" :> Title(<<"b", "a", "z">>)}

CodeParts ==
    {NoKeys,
     "episodeNum" :> <<Code("onscreen", Str_S1E2)>>,
     "episodeNum" :> <<Code("onscreen", Str_S9E9)>>,
     "episodeNum" :> <<Code("onscreen", <<"S", "1", "e", "1">>)>>,
     "episodeNum" :> <<Code("onscreen", <<"S", "-", "1", "E", "1">>)>>,
     "episodeNum" :> <<Code("dd_progid", <<"S", "H", "1">>), Code("onscreen", Str_S1E1)>>,
     "episodeNum" :> <<Code("dd_progid", Str_MV1)>>,
     "episodenum" :> <<Code("dd_progid", <<"m", "v", "1">>)>>,
     "episodenum" :> <<Code("onscreen", Str_S1E2)>>}

DateParts == {NoKeys, "date" :> Str_2021, "date" :> Str_1984, "date" :> <<"x">>}

RecordSet ==
    {t @@ s @@ c @@ d : t \in TitleParts, s \in SubtitleParts, c \in CodeParts,
                        d \in DateParts}

Ep(title, ids) == [title |-> title, ids |-> ids]

Show(title, trakt) == [title |-> title, trakt |-> trakt]

Movie(year, ids) == [title |-> Str_Dune, year |-> year, ids |-> ids]

EpisodeTable ==
    (<<"s1", 1>> :> <<Ep(Str_Bar, "e11"), Ep(Str_Baz, "e12")>>)
    @@ (<<"s1", 2>> :> <<Ep(Str_Bar, "e21"), Ep(Str_Zap, "e22")>>)
    @@ (<<"s2", 1>> :> <<Ep(Str_Zap, "g11"), Ep(Str_Baz, "g12")>>)
    @@ (<<"s3", 1>> :> <<Ep(Str_Zap, "h11")>>)

Contents ==
    { [shows |-> <<Show(Str_foo, "s1")>>,
       seasons |-> ("s1" :> <<1, 2>>),
       movies |-> <<Movie(1984, "A"), Movie(2021, "B")>>],
      [shows |-> <<Show(Str_Foo, "s1")>>,
       seasons |-> ("s1" :> <<2, 1>>),
       movies |-> <<Movie(2021, "B"), Movie(2021, "C")>>],
      [shows |-> <<Show(Str_Goo, "s2"), Show(Str_Foo, "s3"), Show(Str_foo, "s1")>>,
       seasons |-> ("s1" :> <<1, 2>>) @@ ("s2" :> <<1>>) @@ ("s3" :> <<1>>),
       movies |-> <<Movie(1984, "A")>>],
      [shows |-> <<>>, seasons |-> ("s1" :> <<1, 2>>), movies |-> <<>>] }

\* at most one endpoint answers every request with a transport failure
Failings == {{}} \cup {{e} : e \in Endpoints}

Catalogs ==
    { [shows |-> c.shows, seasons |-> c.seasons, episodes |-> EpisodeTable,
       movies |-> c.movies, failing |-> f] : c \in Contents, f \in Failings }

-----------------------------------------------------------------------------
(* main *)

Init ==
    /\ catalog \in Catalogs
    /\ programs \in ProgramLists
    /\ pc = "start"
    /\ idx = 0
    /\ movie_payload = <<>>
    /\ episodes_payload = <<>>
    /\ trace = <<>>
    /\ submitted = <<>>
    /\ pin = <<>>
    /\ pout = <<>>

\* line 387-388 and 424-426: auth_code = get_authorization_code()
GetAuthorizationCode ==
    /\ pc = "start"
    /\ \E auth_code \in {<<>>, <<"c">>} :
           pc' = IF Truthy(auth_code) THEN "token" ELSE "exited"
    /\ UNCHANGED <<catalog, programs, idx, movie_payload, episodes_payload, trace,
                   submitted, pin, pout>>

\* lines 389-392: get_access_token answers 200 or not
GetAccessToken ==
    /\ pc = "token"
    /\ \E status_200 \in BOOLEAN : pc' = IF status_200 THEN "list" ELSE "exited"
    /\ UNCHANGED <<catalog, programs, idx, movie_payload, episodes_payload, trace,
                   submitted, pin, pout>>

\* lines 394-397: create_trakt_list answers 201 or not
CreateList ==
    /\ pc = "list"
    /\ \E status_201 \in BOOLEAN : pc' = IF status_201 THEN "loop" ELSE "exited"
    /\ UNCHANGED <<catalog, programs, idx, movie_payload, episodes_payload, trace,
                   submitted, pin, pout>>

\* ProcessProgram whose episodes_list starts from the list of the call before
ProcessProgram_shared_list ==
    /\ pc = "loop"
    /\ idx < Len(programs)
    /\ LET b == loop_body(programs[idx + 1])
           o == [b EXCEPT !.episodes_list =
                     (IF trace = <<>> \/ b.kind # "episode" THEN <<>>
                      ELSE trace[Len(trace)].episodes_list) \o @]
       IN  /\ movie_payload' = movie_payload \o o.movies
           /\ episodes_payload' =
                  IF o.kind = "episode" /\ ~o.raised
                  THEN Append(episodes_payload, o.episodes_list)
                  ELSE episodes_payload
           /\ trace' = Append(trace, o)
           /\ pc' = IF o.raised THEN "crashed" ELSE "loop"
    /\ idx' = idx + 1
    /\ UNCHANGED <<catalog, programs, submitted, pin, pout>>

\* lines 398-419: one iteration of the loop; an exception ends the run
ProcessProgram ==
    /\ pc = "loop"
    /\ idx < Len(programs)
    /\ LET o == loop_body(programs[idx + 1])
       IN  /\ movie_payload' = movie_payload \o o.movies
           /\ episodes_payload' =
                  IF o.kind = "episode" /\ ~o.raised
                  THEN Append(episodes_payload, o.episodes_list)
                  ELSE episodes_payload
           /\ trace' = Append(trace, o)
           /\ pc' = IF o.raised THEN "crashed" ELSE "loop"
    /\ idx' = idx + 1
    /\ UNCHANGED <<catalog, programs, submitted, pin, pout>>

\* lines 421-423: flatten and add_to_trakt_list, which answers 201 or not
Submit ==
    /\ pc = "loop"
    /\ idx = Len(programs)
    /\ episodes_payload' = Flatten(episodes_payload)
    /\ \E status_201 \in BOOLEAN :
           submitted' = Append(submitted, [movies |-> movie_payload,
                                           episodes |-> Flatten(episodes_payload),
                                           accepted |-> status_201])
    /\ pc' = "done"
    /\ UNCHANGED <<catalog, programs, idx, movie_payload, trace, pin, pout>>

Next == GetAuthorizationCode \/ GetAccessToken \/ CreateList \/ ProcessProgram \/ Submit

Spec == Init /\ [][Next]_vars

\* the run is not stopped from outside: a step that can be taken is taken
FairSpec == Spec /\ WF_vars(Next)

-----------------------------------------------------------------------------
(* one function applied to one argument: pc goes from "call" to "return" *)

NoCatalog ==
    [shows |-> <<>>, seasons |-> NoKeys, episodes |-> NoKeys, movies |-> <<>>,
     failing |-> {}]

InitCall ==
    /\ programs = <<>>
    /\ pc = "call"
    /\ idx = 0
    /\ movie_payload = <<>>
    /\ episodes_payload = <<>>
    /\ trace = <<>>
    /\ submitted = <<>>
    /\ pout = <<>>

Return(result) ==
    /\ pc = "call"
    /\ pc' = "return"
    /\ pout' = result
    /\ UNCHANGED <<catalog, programs, idx, movie_payload, episodes_payload, trace,
                   submitted, pin>>

Strings(alphabet, n) == UNION {[1..k -> alphabet] : k \in 0..n}

(* the loop body on one guide record *)

InitProgram == InitCall /\ catalog \in Catalogs /\ pin \in RecordSet

ResolveProgram == Return(loop_body(pin))

SpecProgram == InitProgram /\ [][ResolveProgram]_vars

(* parse of the onscreen value *)

MaxOnscreenLen == 5

OnscreenAlphabet == {"S", "E", "0", "7", "-", " "}

InitParse ==
    InitCall /\ catalog = NoCatalog /\ pin \in Strings(OnscreenAlphabet, MaxOnscreenLen)

ParseOnscreen == Return(parse_onscreen(pin))

SpecParse == InitParse /\ [][ParseOnscreen]_vars

(* is_movie *)

MaxCodes == 2

ClassifyCodes ==
    {Code("dd_progid", v) : v \in {<<>>, <<"m">>, <<"m", "v">>, Str_MV1, <<"M", "v", "1">>,
                                   <<"m", "V">>, <<"v", "m">>, <<"S", "H", "1">>,
                                   <<"x", "m", "v">>}}
    \cup {[system |-> "dd_progid"], Code("onscreen", Str_MV1), Code("onscreen", Str_S1E1)}

CodeLists == UNION {[1..n -> ClassifyCodes] : n \in 0..MaxCodes}

ClassifyPrograms ==
    {[title |-> Title(Str_Foo)] @@ c : c \in
        {NoKeys}
        \cup {"episodeNum" :> l : l \in CodeLists}
        \cup {"episodenum" :> l : l \in CodeLists}
        \cup {("episodeNum" :> <<a>>) @@ ("episodenum" :> <<b>>) :
                  a \in ClassifyCodes, b \in ClassifyCodes}}

InitClassify == InitCall /\ catalog = NoCatalog /\ pin \in ClassifyPrograms

Classify == Return(is_movie(pin))

SpecClassify == InitClassify /\ [][Classify]_vars

(* the movie branch *)

MaxCandidates == 2

Candidates == {Movie(1984, "A"), Movie(2021, "B"), Movie(1984, "C"), Movie(2021, "D")}

CandidateLists == UNION {[1..n -> Candidates] : n \in 0..MaxCandidates}

MovieCatalogs ==
    {[NoCatalog EXCEPT !.movies = l, !.failing = f] :
        l \in CandidateLists, f \in {{}, {"searchMovies"}}}

MovieTitles == {None, <<>>, Str_Dune, Str_Dune \o <<" ">>}

MovieYears ==
    {None, <<>>, Str_2021, Str_1984, <<" ">> \o Str_2021, <<"2", "_", "0", "2", "1">>,
     <<"1", "9", "9", "9">>, <<"x">>}

InitMovie ==
    /\ InitCall
    /\ catalog \in MovieCatalogs
    /\ pin \in [title : MovieTitles, year : MovieYears]

ResolveMovie == Return(resolve_movie(pin.title, pin.year))

SpecMovie == InitMovie /\ [][ResolveMovie]_vars

-----------------------------------------------------------------------------
(* Properties.  In SpecProgram, SpecMovie, SpecParse and SpecClassify pin is *)
(* the argument and, once pc = "return", pout the result.                    *)

\* the fields get_trakt_episode_data receives for the record under study
ShowTitle == title_value(pin)
EpisodeTitle == subtitle_value(pin)
Onscreen == onscreen_of(pin)

\* the precondition of the episode path holds for the record under study
EpisodePre ==
    /\ pout.kind = "episode"
    /\ Truthy(ShowTitle)
    /\ (Truthy(EpisodeTitle) \/ Truthy(Onscreen))

\* what each lookup of the chain finds for the record under study
Step1 == search_episode_by_onscreen_value(ShowTitle, Onscreen)
Step2 == search_episode_by_title(ShowTitle, EpisodeTitle)

RECURSIVE ResolvedParts(_, _)
\* the items of the parts that resolve, in part order
ResolvedParts(show_title, parts) ==
    IF parts = <<>> THEN <<>>
    ELSE (IF search_episode_by_title(show_title, Strip(Head(parts))).episode # Nil
          THEN <<Item(search_episode_by_title(show_title, Strip(Head(parts))).episode)>>
          ELSE <<>>)
         \o ResolvedParts(show_title, Tail(parts))

CountKind(log, kind) == Cardinality({i \in 1..Len(log) : log[i].kind = kind})

\* C1: every successful resolution appears in the result exactly once: the
\* onscreen result alone, or the whole-title result alone, or one item per part
\* that resolves; in particular one item when step 1 fails and step 2 succeeds.
C1_SingleAppend ==
    (pc = "return" /\ EpisodePre /\ ~pout.raised) =>
        /\ (Truthy(Onscreen) /\ Step1.episode # Nil)
               => pout.episodes_list = <<Item(Step1.episode)>>
        /\ (Truthy(Onscreen) /\ Step1.episode = Nil /\ Step2.episode # Nil)
               => pout.episodes_list = <<Item(Step2.episode)>>
        /\ (~Truthy(Onscreen) /\ Step2.episode # Nil)
               => pout.episodes_list = <<Item(Step2.episode)>>
        /\ (~Truthy(Onscreen) /\ Step2.episode = Nil /\ Contains(EpisodeTitle, ";"))
               => Len(pout.episodes_list)
                      = Len(ResolvedParts(ShowTitle, Split(EpisodeTitle, ";")))

\* C2: without an onscreen value, when the whole title finds nothing and holds a
\* ';', the result is exactly the items of the trimmed parts that resolve, in
\* part order; every part is looked up and every failing part is logged.
C2_SplitTitle ==
    (/\ pc = "return"
     /\ EpisodePre
     /\ ~Truthy(Onscreen)
     /\ Step2.episode = Nil
     /\ Contains(EpisodeTitle, ";")) =>
        LET parts == Split(EpisodeTitle, ";")
            found == ResolvedParts(ShowTitle, parts)
        IN  /\ pout.episodes_list = found
            /\ CountKind(pout.log, "PartFailed") = Len(parts) - Len(found)
            /\ Cardinality({n \in 1..Len(pout.q) : pout.q[n][1] = "searchShows"})
                   = 1 + Len(parts)

\* a record whose title is absent or empty
EmptyTitle(program) ==
    \/ "title" \notin DOMAIN program
    \/ program.title = <<>>
    \/ program.title[1].value = <<>>

\* C5: a record with an empty or absent title, movie or episode, contributes
\* no item and emits exactly one MissingField diagnostic.
C5_EmptyTitle ==
    (pc = "return" /\ EmptyTitle(pin)) =>
        /\ pout.movies = <<>>
        /\ pout.episodes_list = <<>>
        /\ ~pout.raised
        /\ Len(pout.log) = 1
        /\ pout.log[1].kind \in {"MissingField", "MissingFieldMovie"}

C5_Witness ==
    /\ pc = "return"
    /\ "title" \in DOMAIN pin
    /\ pin.title = Title(<<>>)
    /\ is_movie(pin)
    /\ "date" \in DOMAIN pin
    /\ pout.log = <<Diag("MissingFieldMovie", <<<<>>>>)>>

\* the shows of the catalog that the title lookup accepts, in returned order
AcceptedShows ==
    SelectSeq(catalog.shows, LAMBDA s : Score(Lower(ShowTitle), Lower(s.title)) > Threshold)

\* an episode title that matches the title of the record under study
Matches(e) == Score(Lower(EpisodeTitle), Lower(e.title)) > Threshold

RECURSIVE EpisodesOfSeasons(_, _)
\* the episodes of a show, its seasons taken in the order given
EpisodesOfSeasons(show_id, seasons) ==
    IF seasons = <<>> THEN <<>>
    ELSE Get(catalog.episodes, <<show_id, Head(seasons)>>, <<>>)
         \o EpisodesOfSeasons(show_id, Tail(seasons))

RECURSIVE EpisodesOfShows(_)
\* the episodes of the shows, each show's seasons as the catalog returns them
EpisodesOfShows(shows) ==
    IF shows = <<>> THEN <<>>
    ELSE EpisodesOfSeasons(Head(shows).trakt, Get(catalog.seasons, Head(shows).trakt, <<>>))
         \o EpisodesOfShows(Tail(shows))

\* step 2 is what decides the result of the record under study
Step2Decides ==
    /\ pc = "return"
    /\ EpisodePre
    /\ ~Truthy(Onscreen)
    /\ Step2.episode # Nil

\* C6 as stated: the single item returned is the first match when the accepted
\* show's seasons are taken in ascending season number: no season with a lower
\* number, and no earlier episode of the same season, holds a match.
C6_AscendingSeasons ==
    Step2Decides =>
        \E i \in 1..Len(AcceptedShows) :
            LET show_id == AcceptedShows[i].trakt
                seasons == Get(catalog.seasons, show_id, <<>>)
            IN  \E j \in 1..Len(seasons) :
                    LET eps == Get(catalog.episodes, <<show_id, seasons[j]>>, <<>>)
                    IN  \E k \in 1..Len(eps) :
                            /\ pout.episodes_list = <<Item(eps[k])>>
                            /\ Matches(eps[k])
                            /\ \A k2 \in 1..(k - 1) : ~Matches(eps[k2])
                            /\ \A j2 \in 1..Len(seasons) :
                                   seasons[j2] < seasons[j] =>
                                       \A e \in {Get(catalog.episodes,
                                                     <<show_id, seasons[j2]>>, <<>>)[n] :
                                                 n \in 1..Len(Get(catalog.episodes,
                                                     <<show_id, seasons[j2]>>, <<>>))} :
                                           ~Matches(e)

\* C6 as amended: the single item returned is the first match in the order the
\* catalog returned things: accepted shows in search order, each show's seasons
\* in the order listed, each season's episodes in the order listed.
C6_CatalogOrder ==
    Step2Decides =>
        LET hits == SelectSeq(EpisodesOfShows(AcceptedShows), Matches)
        IN  hits # <<>> /\ pout.episodes_list = <<Item(hits[1])>>

C6_Witness ==
    /\ pc = "return"
    /\ Step2Decides
    /\ EpisodeTitle = Str_Bar
    /\ catalog.seasons["s1"] = <<2, 1>>
    /\ pout.episodes_list = <<[ids |-> "e21"]>>

(* SpecMovie *)

\* the candidates whose year equals the integer parse of the year asked for
YearHits ==
    {i \in 1..Len(catalog.movies) :
        IntParse(pin.year).ok /\ catalog.movies[i].year = IntParse(pin.year).val}

\* C4: the movie returned is a candidate of the search whose year equals the
\* integer parse of the year, wherever it stands in the list; with no such
\* candidate, or nothing returned by the search, there is no movie.  The claim
\* is about a year that has an integer parse.
C4_ExactYear ==
    (pc = "return" /\ Truthy(pin.title) /\ Truthy(pin.year) /\ IntParse(pin.year).ok) =>
        /\ ~pout.raised
        /\ pout.movies # <<>> =>
               /\ "searchMovies" \notin catalog.failing
               /\ \E i \in YearHits : pout.movies = <<[ids |-> catalog.movies[i].ids]>>
        /\ ("searchMovies" \notin catalog.failing /\ YearHits # {}) => pout.movies # <<>>
        /\ YearHits = {} => pout.movies = <<>>

C4_Witness ==
    /\ pc = "return"
    /\ pin.year = Str_2021
    /\ catalog.movies = <<Movie(1984, "A"), Movie(2021, "B")>>
    /\ pout.movies = <<[ids |-> "B"]>>

(* SpecParse *)

NonNegativeInt(s) == IntParse(s).ok /\ IntParse(s).val >= 0

\* C9: with the first character dropped and the rest split on 'E', the parse
\* succeeds exactly when there are two parts and both parse as non-negative
\* integers, and then yields them; every other value is an InvalidCodeFormat.
C9_NonNegativeParts ==
    pc = "return" =>
        LET parts == Split(DropFirst(pin), "E")
        IN  /\ pout.ok <=> (/\ Len(parts) = 2
                            /\ NonNegativeInt(parts[1])
                            /\ NonNegativeInt(parts[2]))
            /\ pout.ok => /\ pout.season = IntParse(parts[1]).val
                          /\ pout.episode = IntParse(parts[2]).val

(* SpecClassify *)

\* some code of the record has system dd_progid and a value starting with mv
HasMovieCode(program) ==
    \E key \in {"episodeNum", "episodenum"} \cap DOMAIN program :
        \E i \in 1..Len(program[key]) :
            /\ program[key][i].system = "dd_progid"
            /\ "value" \in DOMAIN program[key][i]
            /\ Len(program[key][i].value) >= 2
            /\ program[key][i].value[1] \in {"m", "M"}
            /\ program[key][i].value[2] \in {"v", "V"}

\* C10: a record is a movie exactly when some code has system dd_progid and a
\* value whose first two characters are mv in any case; otherwise an episode.
C10_Classify == pc = "return" => (pout <=> HasMovieCode(pin))

C10_Witness ==
    /\ pc = "return"
    /\ pout = TRUE
    /\ "episodeNum" \notin DOMAIN pin
    /\ "episodenum" \in DOMAIN pin
    /\ Len(pin.episodenum) = 2
    /\ pin.episodenum[1].system = "onscreen"
    /\ pin.episodenum[2] = Code("dd_progid", <<"M", "v", "1">>)

(* Spec *)

\* C3: no record stops the run: no exception leaves the loop of main, so every
\* record is processed and the run goes on to the submission.
C3_NothingFatal == pc # "crashed"

RECURSIVE MoviesUpTo(_)
\* the movie items of the first n records, record by record
MoviesUpTo(n) ==
    IF n = 0 THEN <<>> ELSE MoviesUpTo(n - 1) \o loop_body(programs[n]).movies

RECURSIVE EpisodesUpTo(_)
\* the episode items of the first n records, record by record
EpisodesUpTo(n) ==
    IF n = 0 THEN <<>> ELSE EpisodesUpTo(n - 1) \o loop_body(programs[n]).episodes_list

\* C7: what is submitted is the concatenation, in guide-record order, of what
\* each record resolved to: nothing dropped, nothing reordered.
C7_BatchOrder ==
    pc = "done" =>
        /\ Len(submitted) = 1
        /\ idx = Len(programs)
        /\ submitted[1].movies = MoviesUpTo(Len(programs))
        /\ submitted[1].episodes = EpisodesUpTo(Len(programs))

C7_Witness ==
    /\ pc = "done"
    /\ Len(programs) = 2
    /\ trace[1].episodes_list = <<[ids |-> "e11"]>>
    /\ trace[2].episodes_list = <<[ids |-> "e12"]>>
    /\ submitted[1].episodes = <<[ids |-> "e11"], [ids |-> "e12"]>>

-----------------------------------------------------------------------------
(* Properties of the fallback chain, in SpecProgram *)

\* the queries of the result that went to an endpoint that fails
FailedQueries == {n \in 1..Len(pout.q) : pout.q[n][1] \in catalog.failing}

\* step 1 ended on the NotFound answer of getEpisode
Step1NotFound ==
    /\ Truthy(Onscreen)
    /\ Step1.episode = Nil
    /\ Step1.log = <<>>
    /\ Step1.q # <<>>
    /\ Step1.q[Len(Step1.q)][1] = "getEpisode"

\* C11: a NotFound of getEpisode in step 1 is followed by step 2, while a
\* transport failure of any catalog call ends the resolution of the record: the
\* failed query is the last one issued, the record contributes nothing, and
\* nothing is raised, so that the next record is processed.
C11_TransportAborts ==
    pc = "return" =>
        /\ \A n \in FailedQueries :
               /\ n = Len(pout.q)
               /\ pout.movies = <<>>
               /\ pout.episodes_list = <<>>
               /\ ~pout.raised
        /\ (EpisodePre /\ Step1NotFound) =>
               /\ Len(pout.q) >= Len(Step1.q) + Len(Step2.q)
               /\ SubSeq(pout.q, 1, Len(Step1.q) + Len(Step2.q)) = Step1.q \o Step2.q

(* SpecMovie *)

\* C12: with a non-empty title and a year that has no integer parse, the movie
\* branch returns no movie and logs a diagnostic, whatever the search returns,
\* and raises nothing, so that the run goes on with the next record.
C12_NonNumericYear ==
    (/\ pc = "return"
     /\ Truthy(pin.title)
     /\ Truthy(pin.year)
     /\ ~IntParse(pin.year).ok) =>
        /\ pout.movies = <<>>
        /\ pout.log # <<>>
        /\ ~pout.raised

(* SpecProgram *)

RECURSIVE PartsQueries(_, _)
\* the catalog queries of the title lookups of the trimmed parts, in part order
PartsQueries(show_title, parts) ==
    IF parts = <<>> THEN <<>>
    ELSE search_episode_by_title(show_title, Strip(Head(parts))).q
         \o PartsQueries(show_title, Tail(parts))

\* step 2 found nothing for a title that holds a ';', after step 1, if there was
\* an onscreen value, had found nothing either
Step3Due ==
    /\ pc = "return"
    /\ EpisodePre
    /\ Contains(EpisodeTitle, ";")
    /\ Truthy(Onscreen) => Step1.episode = Nil
    /\ Step2.episode = Nil
    /\ ~Step2.raised

\* C13: the chain runs step 1, step 2, step 3 in this order: when step 2 found
\* nothing and the title holds a ';', every trimmed part is looked up by title
\* after the queries of the steps before, and every part that matches has its
\* item in the result, also when an onscreen value was given and step 1 failed.
C13_SplitAfterOnscreen ==
    Step3Due =>
        LET parts == Split(EpisodeTitle, ";")
            found == ResolvedParts(ShowTitle, parts)
        IN  /\ pout.q = (IF Truthy(Onscreen) THEN Step1.q ELSE <<>>)
                        \o Step2.q \o PartsQueries(ShowTitle, parts)
            /\ \A k \in 1..Len(found) :
                   \E n \in 1..Len(pout.episodes_list) : pout.episodes_list[n] = found[k]

\* the precondition holds, no step finds a match and the title holds no ';'
NoMatchNoSplit ==
    /\ pc = "return"
    /\ EpisodePre
    /\ ~Contains(EpisodeTitle, ";")
    /\ Truthy(Onscreen) => Step1.episode = Nil
    /\ Step2.episode = Nil

\* C14: when the precondition holds, no step finds a match and the title holds
\* no ';', the result is empty and exactly one ResolutionFailed diagnostic is
\* emitted, naming the episode title and the show title, with or without an
\* onscreen value.
C14_ResolutionFailed ==
    NoMatchNoSplit =>
        /\ ~pout.raised
        /\ pout.episodes_list = <<>>
        /\ CountKind(pout.log, "ResolutionFailed") = 1
        /\ \E n \in 1..Len(pout.log) :
               pout.log[n] = Diag("ResolutionFailed", <<EpisodeTitle, ShowTitle>>)

\* the season and episode numbers of the onscreen value of the record
OnscreenNumbers == parse_onscreen(Onscreen)

\* step 1 succeeds: the code parses, the search returns shows and the catalog
\* holds the episode of that number for the first show returned
Step1Succeeds ==
    /\ pc = "return"
    /\ EpisodePre
    /\ Truthy(Onscreen)
    /\ OnscreenNumbers.ok
    /\ catalog.failing \cap {"searchShows", "getEpisode"} = {}
    /\ catalog.shows # <<>>
    /\ <<catalog.shows[1].trakt, OnscreenNumbers.season>> \in DOMAIN catalog.episodes
    /\ OnscreenNumbers.episode
           \in 1..Len(catalog.episodes[<<catalog.shows[1].trakt, OnscreenNumbers.season>>])

\* C15: when step 1 succeeds the result is exactly the episode of that number
\* of the first show returned, whatever the score of its title, and the only
\* queries are one searchShows and one getEpisode.
C15_OnscreenShortCircuit ==
    Step1Succeeds =>
        LET show_id == catalog.shows[1].trakt
            season  == OnscreenNumbers.season
            number  == OnscreenNumbers.episode
        IN  /\ ~pout.raised
            /\ pout.episodes_list = <<[ids |-> catalog.episodes[<<show_id, season>>][number].ids]>>
            /\ pout.q = <<<<"searchShows", ShowTitle>>,
                          <<"getEpisode", show_id, season, number>>>>

C15_Witness ==
    /\ Step1Succeeds
    /\ ShowTitle = Str_Foo
    /\ catalog.shows[1].title = Str_Goo
    /\ Score(Lower(ShowTitle), Lower(catalog.shows[1].title)) <= Threshold
    /\ Len(catalog.shows) = 3
    /\ pout.episodes_list = <<[ids |-> "g11"]>>

\* the onscreen value of the record is present and does not parse
MalformedOnscreen ==
    /\ pc = "return"
    /\ EpisodePre
    /\ Truthy(Onscreen)
    /\ ~OnscreenNumbers.ok

\* C16: a malformed onscreen value costs no catalog query and is not fatal: the
\* queries are those of the title lookup of the episode title, InvalidCodeFormat
\* is reported, and the result is what that lookup found, if anything.
C16_MalformedOnscreen ==
    MalformedOnscreen =>
        /\ ~pout.raised
        /\ pout.q = Step2.q
        /\ CountKind(pout.log, "InvalidCodeFormat") = 1
        /\ pout.episodes_list =
               (IF Step2.episode # Nil THEN <<Item(Step2.episode)>> ELSE <<>>)

\* the precondition of the branch the record takes does not hold
PreconditionFails ==
    /\ pc = "return"
    /\ IF pout.kind = "movie"
       THEN ~(Truthy(title_value(pin)) /\ Truthy(date_value(pin)))
       ELSE ~(Truthy(ShowTitle) /\ (Truthy(EpisodeTitle) \/ Truthy(Onscreen)))

\* C17: when the precondition fails (no show title, or neither episode title nor
\* onscreen value; no movie title or no year) nothing is returned, nothing is
\* raised, no catalog query is issued and one MissingField diagnostic is emitted.
C17_PreconditionFails ==
    PreconditionFails =>
        /\ pout.movies = <<>>
        /\ pout.episodes_list = <<>>
        /\ ~pout.raised
        /\ pout.q = <<>>
        /\ Len(pout.log) = 1
        /\ pout.log[1].kind = (IF pout.kind = "movie" THEN "MissingFieldMovie"
                               ELSE "MissingField")

C17_Witness ==
    /\ PreconditionFails
    /\ pout.kind = "episode"
    /\ ShowTitle = Str_Foo
    /\ "subTitle" \in DOMAIN pin
    /\ EpisodeTitle = None
    /\ Onscreen = None
    /\ catalog.shows # <<>>
    /\ pout.log = <<Diag("MissingField", <<Str_Foo>>)>>

(* Spec *)

\* the token was obtained and the list was created
ListCreated == pc \notin {"start", "token", "list", "exited"}

\* C18: the batch is submitted at most once, only with the token obtained and
\* the list created and only after every record was processed; without token or
\* list there is no catalog query and no submission; and a run that has its
\* token and its list has, once it has left the loop over the records, exactly
\* one submission, empty payloads or not.
C18_SubmitOnce ==
    /\ Len(submitted) <= 1
    /\ submitted # <<>> =>
           /\ pc = "done"
           /\ idx = Len(programs)
           /\ Len(trace) = Len(programs)
    /\ ~ListCreated => (trace = <<>> /\ submitted = <<>>)
    /\ (ListCreated /\ pc # "loop") => Len(submitted) = 1

====
